---- MODULE Spec2Model ----
(***************************************************************************)
(* Verification model of the crsm-operator controller                      *)
(* (internal/controller/customresourcestatemetrics_controller.go).         *)
(*                                                                         *)
(* Text is modelled as a sequence of tokens.  A token is either the        *)
(* newline NL or a piece of text that contains no newline (a marker, a     *)
(* header line, a YAML line, "{}", a blank " ").  Two texts are equal iff  *)
(* their token sequences are equal; every Go string function used by the   *)
(* controller (Split, Join, TrimRight, TrimSuffix, HasSuffix, TrimSpace)   *)
(* is computed on the token sequence as Go computes it on the bytes.       *)
(***************************************************************************)
EXTENDS Integers, Sequences, FiniteSets, TLC

(***************************************************************************)
(* Go strings package                                                      *)
(***************************************************************************)
NL == "\n"

\* The blanks strings.TrimSpace removes
WhiteSpace == {NL, " "}

\* strings.Split(s, "\n")
RECURSIVE Split(_)
Split(s) ==
    IF \A i \in 1..Len(s) : s[i] # NL
    THEN <<s>>
    ELSE LET i == CHOOSE n \in 1..Len(s) :
                      s[n] = NL /\ \A j \in 1..(n - 1) : s[j] # NL
         IN  <<SubSeq(s, 1, i - 1)>> \o Split(SubSeq(s, i + 1, Len(s)))

\* strings.Join(lines, "\n")
RECURSIVE Join(_)
Join(ls) ==
    IF ls = <<>> THEN <<>>
    ELSE IF Len(ls) = 1 THEN ls[1]
    ELSE ls[1] \o <<NL>> \o Join(Tail(ls))

\* strings.HasSuffix(s, "\n")
HasSuffixNL(s) == Len(s) > 0 /\ s[Len(s)] = NL

\* strings.TrimSuffix(s, "\n"): removes one trailing newline
TrimSuffixNL(s) == IF HasSuffixNL(s) THEN SubSeq(s, 1, Len(s) - 1) ELSE s

\* strings.TrimRight(s, "\n"): removes every trailing newline
RECURSIVE TrimRightNL(_)
TrimRightNL(s) == IF HasSuffixNL(s) THEN TrimRightNL(SubSeq(s, 1, Len(s) - 1)) ELSE s

\* strings.TrimSpace(s)
RECURSIVE TrimSpace(_)
TrimSpace(s) ==
    IF s = <<>> THEN s
    ELSE IF s[1] \in WhiteSpace THEN TrimSpace(Tail(s))
    ELSE IF s[Len(s)] \in WhiteSpace THEN TrimSpace(SubSeq(s, 1, Len(s) - 1))
    ELSE s

\* The Go slice expression lines[lo:hi] (indices from 0, hi exclusive)
Slice(lines, lo, hi) == SubSeq(lines, lo + 1, hi)

\* lines[lo:hi] panics (slice bounds out of range)
SlicePanics(lines, lo, hi) == lo < 0 \/ hi > Len(lines) \/ lo > hi

(***************************************************************************)
(* Constants of the controller                                             *)
(***************************************************************************)
FinalizerName == "ksm.jtyr.io/finalizer"
beginMarkerFormat == "# BEGIN CustomResourceStateMetrics "
endMarkerFormat == "# END CustomResourceStateMetrics "
conditionTypeReady == "Ready"
reasonAdding == "Adding"
reasonRemoving == "Removing"

\* fmt.Sprintf(beginMarkerFormat, name) / fmt.Sprintf(endMarkerFormat, name)
beginMarker(name) == beginMarkerFormat \o name
endMarker(name) == endMarkerFormat \o name

\* utils.NamespacedName: fmt.Sprintf("%s@%s", name, namespace)
NamespacedName(name, namespace) == name \o "@" \o namespace

\* cmDataHeader of addCustomResourceStateMetric
cmDataHeader ==
    <<"kind: CustomResourceStateMetrics", NL, "spec:", NL, "  resources:", NL>>

\* cmData of addCustomResourceStateMetric:
\* fmt.Sprintf("%s\n%s%s\n", dataMarkerBegin, dataYaml, dataMarkerEnd)
cmData(name, dataYaml) ==
    <<beginMarker(name), NL>> \o dataYaml \o <<endMarker(name), NL>>

(***************************************************************************)
(* findBlock, joinLines                                                    *)
(***************************************************************************)
\* The loop of findBlock from index i on, with the values found so far
RECURSIVE findBlockLoop(_, _, _, _, _, _)
findBlockLoop(name, lines, i, found, beginIndex, endIndex) ==
    IF i >= Len(lines)
    THEN [found |-> found, beginIndex |-> beginIndex, endIndex |-> endIndex]
    ELSE LET line == lines[i + 1]
             b == IF line = <<beginMarker(name)>> THEN i ELSE beginIndex
             hit == line = <<endMarker(name)>> /\ b > -1
         IN  findBlockLoop(name, lines, i + 1, found \/ hit, b,
                           IF hit THEN i ELSE endIndex)

\* Variant of findBlock that starts its scan at the second line
findBlockFromSecondLine(name, lines) == findBlockLoop(name, lines, 1, FALSE, -1, -1)

findBlock(name, lines) == findBlockLoop(name, lines, 0, FALSE, -1, -1)

joinLines(lines, start, end) ==
    LET lastIndex == Len(lines) - 1
        start2 == IF start < 0 THEN 0 ELSE start
        strip == end = lastIndex \/ end = -1 \/ end > lastIndex
        end2 == IF end = lastIndex THEN end
                ELSE IF end = -1 \/ end > lastIndex THEN lastIndex
                ELSE end
        result == Join(Slice(lines, start2, end2 + 1))
    IN  IF strip THEN TrimRightNL(result)
        ELSE IF ~HasSuffixNL(result) THEN result \o <<NL>>
        ELSE result

\* The slice expression lines[start:end+1] of joinLines panics
joinLinesPanics(lines, start, end) ==
    LET lastIndex == Len(lines) - 1
        start2 == IF start < 0 THEN 0 ELSE start
        end2 == IF end = -1 \/ end > lastIndex THEN lastIndex ELSE end
    IN  SlicePanics(lines, start2, end2 + 1)

(***************************************************************************)
(* Resource Encoder                                                        *)
(***************************************************************************)
\* A resource value is modelled by the text of its one-line YAML mapping;
\* Unencodable stands for a value that MarshalJSON / json.Unmarshal rejects.
Unencodable == "<unencodable>"

\* yaml.Marshal(&Data{Resources: ...}) of gopkg.in/yaml.v3: the wrapping key,
\* then one indented list item per resource; an empty list on the same line.
RECURSIVE yamlItems(_)
yamlItems(resources) ==
    IF resources = <<>> THEN <<>>
    ELSE <<"    - " \o Head(resources), NL>> \o yamlItems(Tail(resources))

yamlMarshal(resources) ==
    IF resources = <<>> THEN <<"resources: []", NL>>
    ELSE <<"resources:", NL>> \o yamlItems(resources)

\* strings.SplitN(s, "\n", 2)
SplitN2(s) ==
    IF \A i \in 1..Len(s) : s[i] # NL
    THEN <<s>>
    ELSE LET i == CHOOSE n \in 1..Len(s) :
                      s[n] = NL /\ \A j \in 1..(n - 1) : s[j] # NL
         IN  <<SubSeq(s, 1, i - 1), SubSeq(s, i + 1, Len(s))>>

\* Variant of decodeData that reports no error
decodeDataIgnoringErrors(resources) == [err |-> FALSE, yaml |-> <<>>]

decodeData(resources) ==
    IF \E i \in 1..Len(resources) : resources[i] = Unencodable
    THEN [err |-> TRUE, yaml |-> <<>>]
    ELSE LET yamlDataString == yamlMarshal(resources)
             yamlDataSplit == SplitN2(yamlDataString)
         IN  IF Len(yamlDataSplit) < 2
             THEN [err |-> FALSE, yaml |-> yamlDataString]
             ELSE [err |-> FALSE, yaml |-> yamlDataSplit[2]]

(***************************************************************************)
(* Block Merge Engine: the text computations of the Add and Delete paths   *)
(***************************************************************************)
\* Variant of upsertBlock that keeps a {} placeholder in front of the block
upsertBlockKeepingPlaceholder(data, name, dataYaml) ==
    LET lines == Split(data)
        fb == findBlock(name, lines)
        block == cmData(name, dataYaml)
    IN  IF fb.found
        THEN IF SlicePanics(lines, fb.beginIndex, fb.endIndex + 1)
             THEN [same |-> FALSE, panic |-> TRUE, data |-> data]
             ELSE IF TrimSuffixNL(block) = Join(Slice(lines, fb.beginIndex, fb.endIndex + 1))
             THEN [same |-> TRUE, panic |-> FALSE, data |-> data]
             ELSE [same |-> FALSE, panic |-> FALSE, data |->
                     (IF fb.beginIndex > 0
                      THEN joinLines(lines, 0, fb.beginIndex - 1) ELSE <<>>)
                     \o block
                     \o (IF fb.endIndex < Len(lines) - 1
                         THEN joinLines(lines, fb.endIndex + 1, -1) ELSE <<>>)]
        ELSE [same |-> FALSE, panic |-> FALSE, data |-> data \o block]

\* Variant of upsertBlock that replaces a block without comparing it first
upsertBlockAlwaysWriting(data, name, dataYaml) ==
    LET lines == Split(data)
        fb == findBlock(name, lines)
        data1 == IF TrimSpace(data) = <<"{}">> THEN cmDataHeader ELSE data
        block == cmData(name, dataYaml)
    IN  IF fb.found
        THEN IF SlicePanics(lines, fb.beginIndex, fb.endIndex + 1)
             THEN [same |-> FALSE, panic |-> TRUE, data |-> data]
             ELSE [same |-> FALSE, panic |-> FALSE, data |->
                     (IF fb.beginIndex > 0
                      THEN joinLines(lines, 0, fb.beginIndex - 1) ELSE <<>>)
                     \o block
                     \o (IF fb.endIndex < Len(lines) - 1
                         THEN joinLines(lines, fb.endIndex + 1, -1) ELSE <<>>)]
        ELSE [same |-> FALSE, panic |-> FALSE, data |-> data1 \o block]

\* addCustomResourceStateMetric on an existing ConfigMap: the new content of
\* cm.Data[cmKey]; same = the identical block exists and nothing is written;
\* panic = the slice lines[beginIndex:endIndex+1] is out of range.
upsertBlock(data, name, dataYaml) ==
    LET lines == Split(data)
        fb == findBlock(name, lines)
        data1 == IF TrimSpace(data) = <<"{}">> THEN cmDataHeader ELSE data
        block == cmData(name, dataYaml)
    IN  IF fb.found
        THEN IF SlicePanics(lines, fb.beginIndex, fb.endIndex + 1)
             THEN [same |-> FALSE, panic |-> TRUE, data |-> data]
             ELSE IF TrimSuffixNL(block) = Join(Slice(lines, fb.beginIndex, fb.endIndex + 1))
             THEN [same |-> TRUE, panic |-> FALSE, data |-> data]
             ELSE [same |-> FALSE, panic |-> FALSE, data |->
                     (IF fb.beginIndex > 0
                      THEN joinLines(lines, 0, fb.beginIndex - 1) ELSE <<>>)
                     \o block
                     \o (IF fb.endIndex < Len(lines) - 1
                         THEN joinLines(lines, fb.endIndex + 1, -1) ELSE <<>>)]
        ELSE [same |-> FALSE, panic |-> FALSE, data |-> data1 \o block]

\* addCustomResourceStateMetric when the ConfigMap does not exist: the content
\* of the created field
newConfigMapData(name, dataYaml) == cmDataHeader \o cmData(name, dataYaml)

\* Variant of removeBlock that reports a block although findBlock found none
removeBlockAlwaysFound(data, name) ==
    LET lines == Split(data)
        fb == findBlock(name, lines)
    IN  IF ~fb.found
        THEN [found |-> TRUE, data |-> data]
        ELSE [found |-> TRUE, data |->
                (IF fb.beginIndex > 0
                 THEN joinLines(lines, 0, fb.beginIndex - 1) ELSE <<>>)
                \o (IF fb.endIndex < Len(lines) - 1
                    THEN joinLines(lines, fb.endIndex + 1, -1) ELSE <<>>)]

\* deleteCustomResourceStateMetric on an existing ConfigMap: whether the block
\* was found and the new content of cm.Data[cmKey]
removeBlock(data, name) ==
    LET lines == Split(data)
        fb == findBlock(name, lines)
    IN  IF ~fb.found
        THEN [found |-> FALSE, data |-> data]
        ELSE [found |-> TRUE, data |->
                (IF fb.beginIndex > 0
                 THEN joinLines(lines, 0, fb.beginIndex - 1) ELSE <<>>)
                \o (IF fb.endIndex < Len(lines) - 1
                    THEN joinLines(lines, fb.endIndex + 1, -1) ELSE <<>>)]

(***************************************************************************)
(* Bounds and input sets                                                   *)
(***************************************************************************)
\* Longest document (in tokens) to which the merge engine still adds a block
MaxDocLen == 18

\* Longest document (in tokens) to which a reconciliation still adds a block
MaxCmLen == 16

\* Number of times users edit the spec of an instance
MaxEdits == 1

\* Number of storage calls that fail for a reason other than a conflict
MaxFails == 1

\* Longest line sequence handed to findBlock and joinLines
MaxLines == 4

\* Instance names; every instance lives in namespace "ns"
Names == {"a", "b", "c"}
Keys == {NamespacedName(n, "ns") : n \in Names}

\* The instances the controller reconciles
CKeys == {NamespacedName(n, "ns") : n \in {"a", "b"}}

\* Names of the ConfigMaps instances point to (spec.configMap.name)
CMNames == {"ksm-config"}

\* Names a user may change spec.configMap.name of an instance to
RetargetNames == {"ksm-config-2"}

\* The ConfigMaps of the document repository
AllCMNames == CMNames \cup RetargetNames

\* Resource lists an instance may carry: the one it is created with, and the
\* lists a user may change it to
NewResources == <<"foo: bar">>
ResourceLists == {NewResources, <<>>, <<Unencodable>>}

\* Encoded fragments handed to the merge engine
Fragments == {decodeData(<<"foo: bar">>).yaml, <<"a: b", NL>>}

\* The lines a line sequence handed to findBlock and joinLines is made of:
\* markers of two keys, a content line and the empty line
InputLines ==
    {<<beginMarker(k)>> : k \in CKeys} \cup {<<endMarker(k)>> : k \in CKeys}
        \cup {<<"x">>, <<>>}

\* A document field as the storage layer holds it before the first Add
Placeholders == {<<"{}">>, <<"{}", NL>>}

(***************************************************************************)
(* State                                                                   *)
(***************************************************************************)
VARIABLES
    mdoc,       \* merge engine: the shared document [exists, data, nilData]
    mop,        \* merge engine: the last operation applied to mdoc
    inst,       \* instance repository: key -> stored instance
    cms,        \* document repository: ConfigMap name -> [exists, data]
    pc,         \* key -> the storage call its Reconcile invocation is at
    instance,   \* key -> the local variable instance of Reconcile
    cm,         \* key -> the local variable cm of the Add / Delete path
    instStale,  \* key -> the stored instance changed since instance was read
    cmStale,    \* key -> the stored ConfigMap changed since cm was read
    run,        \* key -> record of the current (or last) invocation
    fails,      \* storage failures injected so far
    edits,      \* spec edits users have made so far
    crsmTotal,  \* metrics recorder: the value of the gauge crsm_total
    queue,      \* work queue: keys with an admitted notification pending
    filtered,   \* Reconcile is invoked only for keys of the work queue (else
                \* at any moment: resynchronisation, restart, redelivery)
    input,      \* pure functions: the line sequence handed to them
    call        \* pure functions: the last call and what it returned

mvars == <<mdoc, mop>>
cvars == <<inst, cms, pc, instance, cm, instStale, cmStale, run, fails, edits,
           crsmTotal, queue, filtered>>
pvars == <<input, call>>
vars == <<mdoc, mop, inst, cms, pc, instance, cm, instStale, cmStale, run, fails,
          edits, crsmTotal, queue, filtered, input, call>>

NoInstance ==
    [exists |-> FALSE, generation |-> 0, deleting |-> FALSE, finalizers |-> {},
     resources |-> <<>>, configMap |-> "", conditions |-> <<>>]

NoCM == [name |-> "", read |-> <<>>, data |-> <<>>]

NoRun ==
    [state |-> "none", path |-> "none", result |-> "none", wrote |-> FALSE,
     statusFailed |-> FALSE, updateFailed |-> FALSE, getFailed |-> FALSE,
     dataYaml |-> <<>>, cause |-> "none"]

NoCall == [fn |-> "none"]

\* The values the variables of the other specifications are parked at
PureIdle == input = <<>> /\ call = NoCall

MergeIdle ==
    /\ mdoc = [exists |-> FALSE, data |-> <<>>, nilData |-> FALSE]
    /\ mop = [kind |-> "init", key |-> "", frag |-> <<>>, wrote |-> FALSE,
              placeholder |-> FALSE]

\* The document repository before the first reconciliation: a ConfigMap
\* instances are created with is absent or holds the {} placeholder, the
\* others are absent
InitialDocuments ==
    {[n \in AllCMNames |->
        IF n \in CMNames THEN f[n] ELSE [exists |-> FALSE, data |-> <<>>]] :
     f \in [CMNames -> {[exists |-> FALSE, data |-> <<>>],
                        [exists |-> TRUE, data |-> <<"{}">>]}]}

ControllerIdle ==
    /\ inst = [k \in CKeys |-> NoInstance]
    /\ cms = [n \in AllCMNames |-> [exists |-> FALSE, data |-> <<>>]]
    /\ pc = [k \in CKeys |-> "idle"]
    /\ instance = [k \in CKeys |-> NoInstance]
    /\ cm = [k \in CKeys |-> NoCM]
    /\ instStale = [k \in CKeys |-> FALSE]
    /\ cmStale = [k \in CKeys |-> FALSE]
    /\ run = [k \in CKeys |-> NoRun]
    /\ fails = 0
    /\ edits = 0
    /\ crsmTotal = 0
    /\ queue = {}
    /\ filtered = FALSE

(***************************************************************************)
(* MergeSpec: Add and Delete paths applied one after another to a document *)
(***************************************************************************)
MergeInit ==
    /\ mdoc \in {[exists |-> FALSE, data |-> <<>>, nilData |-> FALSE]}
                \cup {[exists |-> TRUE, data |-> p, nilData |-> FALSE] :
                        p \in Placeholders}
    /\ mop = [kind |-> "init", key |-> "", frag |-> <<>>, wrote |-> FALSE,
              placeholder |-> FALSE]
    /\ ControllerIdle
    /\ PureIdle

\* The Add path for instance key k with encoded fragment f, every storage call
\* succeeding.  A ConfigMap read with a nil Data map gives "" for
\* cm.Data[cmKey]: no block is found, and the assignment cm.Data[cmKey] +=
\* cmData to an entry of the nil map panics before anything is stored.
MAdd(k, f) ==
    /\ Len(mdoc.data) <= MaxDocLen
    /\ IF ~mdoc.exists
       THEN /\ mdoc' = [exists |-> TRUE, data |-> newConfigMapData(k, f),
                         nilData |-> FALSE]
            /\ mop' = [kind |-> "create", key |-> k, frag |-> f, wrote |-> TRUE,
                       placeholder |-> FALSE]
       ELSE IF mdoc.nilData
       THEN /\ mdoc' = mdoc
            /\ mop' = [kind |-> "panic", key |-> k, frag |-> f, wrote |-> FALSE,
                       placeholder |-> FALSE]
       ELSE LET r == upsertBlock(mdoc.data, k, f)
            IN  /\ ~r.panic
                /\ mdoc' = [mdoc EXCEPT !.data = r.data]
                /\ mop' = [kind |-> "add", key |-> k, frag |-> f,
                           wrote |-> ~r.same,
                           placeholder |-> TrimSpace(mdoc.data) = <<"{}">>]
    /\ UNCHANGED <<cvars, pvars>>

\* The Delete path for instance key k, every storage call succeeding
MDelete(k) ==
    /\ mdoc.exists
    /\ LET r == removeBlock(mdoc.data, k)
       IN  /\ mdoc' = [mdoc EXCEPT !.data = r.data]
           /\ mop' = [kind |-> "delete", key |-> k, frag |-> <<>>,
                      wrote |-> r.found, placeholder |-> FALSE]
    /\ UNCHANGED <<cvars, pvars>>

MergeNext ==
    \/ \E k \in Keys, f \in Fragments : MAdd(k, f)
    \/ \E k \in Keys : MDelete(k)

MergeSpec == MergeInit /\ [][MergeNext]_vars

(***************************************************************************)
(* Properties of the merge engine (checked under MergeSpec)                *)
(***************************************************************************)
\* findBlock locates a block of key k in the text data
HasBlock(data, k) == findBlock(k, Split(data)).found

\* The lines of k's block, from its begin marker to its end marker
BlockLines(data, k) ==
    LET lines == Split(data)
        fb == findBlock(k, lines)
    IN  Slice(lines, fb.beginIndex, fb.endIndex + 1)

\* The document a placeholder is normalised to, any other document itself
Normalised(data) == IF TrimSpace(data) = <<"{}">> THEN cmDataHeader ELSE data

\* C1: an Add (append or replace) or Delete for key k leaves the block of
\* every other key locatable by findBlock and byte-identical, in every
\* document reached from an absent document or a {} placeholder.
C1_OtherBlocksUntouched ==
    [][\A k2 \in Keys :
          (k2 # mop'.key /\ mdoc.exists /\ HasBlock(mdoc.data, k2))
             => /\ HasBlock(mdoc'.data, k2)
                /\ BlockLines(mdoc'.data, k2) = BlockLines(mdoc.data, k2)]_mvars

\* C6: upsert is idempotent on every document:
\* upsertBlock(upsertBlock(doc, k, f), k, f) = upsertBlock(doc, k, f).
C6_UpsertIdempotent ==
    mdoc.exists =>
        \A k \in Keys, f \in Fragments :
            LET once == upsertBlock(mdoc.data, k, f).data
            IN  upsertBlock(once, k, f).data = once

\* C7: round trip: removing k's block from upsertBlock(doc, k, f), for a doc
\* holding no block of k, gives doc back (a {} placeholder comes back as the
\* header preamble).
C7_RoundTrip ==
    mdoc.exists =>
        \A k \in Keys, f \in Fragments :
            ~HasBlock(mdoc.data, k) =>
                LET r == removeBlock(upsertBlock(mdoc.data, k, f).data, k)
                IN  r.found /\ r.data = Normalised(mdoc.data)

\* C10: upserting key a@ns with fragment "a: b\n" into a {} placeholder gives
\* exactly header, begin marker line, fragment, end marker line.
C10_PlaceholderNormalised ==
    (mop.kind = "add" /\ mop.placeholder /\ mop.key = "a@ns"
        /\ mop.frag = <<"a: b", NL>>)
    => mdoc.data =
          <<"kind: CustomResourceStateMetrics", NL, "spec:", NL, "  resources:", NL,
            "# BEGIN CustomResourceStateMetrics a@ns", NL,
            "a: b", NL,
            "# END CustomResourceStateMetrics a@ns", NL>>

\* C10 witness: the Add path has acted on a placeholder for a@ns with "a: b\n"
C10_Witness ==
    /\ mop.kind = "add" /\ mop.placeholder /\ mop.wrote
    /\ mop.key = "a@ns" /\ mop.frag = <<"a: b", NL>>

\* The lines of the document in which the block of k, located by findBlock in
\* data, is replaced by the lines blockLines: the lines before the begin
\* marker, blockLines, the lines after the end marker
SplicedLines(data, k, blockLines) ==
    LET lines == Split(data)
        fb == findBlock(k, lines)
    IN  Slice(lines, 0, fb.beginIndex) \o blockLines
            \o Slice(lines, fb.endIndex + 1, Len(lines))

\* C21: splice frame: when the Add path replaces, or the Delete path removes,
\* the block it located at [begin, end], the lines of the resulting document
\* are exactly the original lines before begin, the lines of the new block
\* (none for a removal) and the original lines after end: every line outside
\* the block, empty lines and the final newline included, is preserved and
\* none is added.
C21_SpliceFrame ==
    [][(mdoc.exists /\ mop'.wrote /\ HasBlock(mdoc.data, mop'.key))
          => Split(mdoc'.data) =
                SplicedLines(mdoc.data, mop'.key,
                             IF mop'.kind = "delete" THEN <<>>
                             ELSE Split(TrimSuffixNL(cmData(mop'.key, mop'.frag))))]_mvars

\* The indices of the lines of data that are exactly the line l
LinesEqual(data, l) == {i \in 1..Len(Split(data)) : Split(data)[i] = l}

\* The positions of data at which the text t is written
Occurrences(data, t) == {i \in 1..Len(data) : data[i] = t}

\* C22: at-most-once block: after any sequence of successful Add and Delete
\* paths for any keys, starting from an absent document or a {} placeholder,
\* the document holds for each key at most one begin marker line and at most
\* one end marker line, and what the Add path wrote for the key (its markers
\* around the encoded content) occurs at most once.
C22_AtMostOneBlock ==
    \A k \in Keys :
        /\ Cardinality(LinesEqual(mdoc.data, <<beginMarker(k)>>)) <= 1
        /\ Cardinality(LinesEqual(mdoc.data, <<endMarker(k)>>)) <= 1
        /\ Cardinality(Occurrences(mdoc.data, beginMarker(k))) <= 1
        /\ Cardinality(Occurrences(mdoc.data, endMarker(k))) <= 1

\* C27: Add postcondition: whenever the Add path returns success (document
\* created, block appended, block replaced, or identical block found),
\* findBlock finds the instance's block in the stored document and the lines
\* from its begin marker to its end marker are the begin marker, the lines of
\* the encoded fragment and the end marker.
C27_AddPostcondition ==
    mop.kind \in {"create", "add"} =>
        /\ HasBlock(mdoc.data, mop.key)
        /\ BlockLines(mdoc.data, mop.key) =
              Split(TrimSuffixNL(cmData(mop.key, mop.frag)))

\* C28: newline termination: every document content written by the Add path
\* or the Delete path is either empty or ends with a newline.
C28_NewlineTerminated ==
    (mop.kind \in {"create", "add", "delete"} /\ mop.wrote)
        => (mdoc.data = <<>> \/ HasSuffixNL(mdoc.data))

(***************************************************************************)
(* HeaderSpec: the Add and Delete paths applied to a document that is      *)
(* absent, holds the {} placeholder, or exists with an empty or missing    *)
(* field (cm.Data[cmKey] reads "" in both cases)                           *)
(***************************************************************************)
HeaderInit ==
    /\ mdoc \in {[exists |-> FALSE, data |-> <<>>, nilData |-> FALSE],
                 [exists |-> TRUE, data |-> <<>>, nilData |-> FALSE]}
                \cup {[exists |-> TRUE, data |-> p, nilData |-> FALSE] :
                        p \in Placeholders}
    /\ mop = [kind |-> "init", key |-> "", frag |-> <<>>, wrote |-> FALSE,
              placeholder |-> FALSE]
    /\ ControllerIdle
    /\ PureIdle

HeaderSpec == HeaderInit /\ [][MergeNext]_vars

\* The text s begins with the text p
BeginsWith(s, p) == Len(s) >= Len(p) /\ SubSeq(s, 1, Len(p)) = p

\* C30: header: every document content written by a successful Add path
\* begins with the header preamble, whether the document was absent, held the
\* {} placeholder, held an empty or missing field, or already held blocks.
C30_HeaderFirst ==
    (mop.kind \in {"create", "add"} /\ mop.wrote)
        => BeginsWith(mdoc.data, cmDataHeader)

(***************************************************************************)
(* NilDataSpec: the Add and Delete paths applied to a document that is     *)
(* absent, holds the {} placeholder, has an empty field, or exists with a  *)
(* nil Data map (a ConfigMap stored without any entry)                     *)
(***************************************************************************)
NilDataInit ==
    /\ mdoc \in {[exists |-> FALSE, data |-> <<>>, nilData |-> FALSE],
                 [exists |-> TRUE, data |-> <<>>, nilData |-> FALSE],
                 [exists |-> TRUE, data |-> <<>>, nilData |-> TRUE]}
                \cup {[exists |-> TRUE, data |-> p, nilData |-> FALSE] :
                        p \in Placeholders}
    /\ mop = [kind |-> "init", key |-> "", frag |-> <<>>, wrote |-> FALSE,
              placeholder |-> FALSE]
    /\ ControllerIdle
    /\ PureIdle

NilDataSpec == NilDataInit /\ [][MergeNext]_vars

\* C31: when the target document exists with a nil Data map, the Add path
\* completes without crashing or erroring and stores a field that holds the
\* instance's block.
C31_NilDataAdd ==
    [][(mdoc.exists /\ mdoc.nilData /\ mop'.kind # "delete")
          => /\ mop'.kind = "add"
             /\ mop'.wrote
             /\ HasBlock(mdoc'.data, mop'.key)]_mvars

(***************************************************************************)
(* Metrics recorder                                                        *)
(***************************************************************************)
\* PrometheusMetricsRecorder.IncCRSMTotal / DecCRSMTotal: the value of the gauge
\* after the call.  CustomResourceStateMetricsReconciler holds no
\* MetricsRecorder and Reconcile calls neither, so no action below applies them.
IncCRSMTotal(total) == total + 1
DecCRSMTotal(total) == total - 1

(***************************************************************************)
(* Change admission: the event filter of SetupWithManager                  *)
(*                                                                         *)
(* An object of a notification carries its generation, its labels (a set   *)
(* of "key=value" pairs), its finalizers (a list, as GetFinalizers returns *)
(* it) and its status.  A selector is the set of pairs it requires.  The   *)
(* namespace lookup returns an error or the labels of the namespace.       *)
(***************************************************************************)
\* Highest generation of an object in a notification
MaxGeneration == 2

LabelSets == {{}, {"app=x"}}
FinalizerLists ==
    {<<>>, <<FinalizerName>>, <<FinalizerName, "other">>, <<"other", FinalizerName>>}
Selectors == {{}, {"app=x"}}
NamespaceSelectors == {{}, {"env=prod"}}
NamespaceLookups ==
    {[err |-> "notfound", labels |-> {}], [err |-> "failure", labels |-> {}],
     [err |-> "none", labels |-> {}], [err |-> "none", labels |-> {"env=prod"}]}
EventObjects ==
    [generation : 1..MaxGeneration, labels : LabelSets, finalizers : FinalizerLists,
     status : {"False", "True"}]

\* labels.Selector.Matches(labels.Set)
Matches(selector, labels) == selector \subseteq labels

\* predicate.GenerationChangedPredicate.Update
GenerationChangedUpdate(old, new) == new.generation # old.generation

\* LabelsChangedPredicate().UpdateFunc: !reflect.DeepEqual of the label maps
LabelsChangedUpdate(old, new) == old.labels # new.labels

\* FinalizersChangedPredicate().UpdateFunc: !reflect.DeepEqual of the
\* finalizer slices
FinalizersChangedUpdate(old, new) == old.finalizers # new.finalizers

\* LabelSelectorPredicate(selector): every function tests the (new) object
LabelSelectorMatches(selector, object) == Matches(selector, object.labels)

\* Variant of namespaceMatches that lets a failed lookup match
namespaceMatchesIgnoringErrors(selector, ns) ==
    ns.err # "none" \/ Matches(selector, ns.labels)

\* namespaceMatches: false on any error of client.Get
namespaceMatches(selector, ns) ==
    IF ns.err # "none" THEN FALSE ELSE Matches(selector, ns.labels)

\* combinedPredicate.Update: And(Or(generation, labels, finalizers), label
\* selector, namespace selector)
combinedPredicateUpdate(old, new, selector, nsSelector, ns) ==
    /\ \/ GenerationChangedUpdate(old, new)
       \/ LabelsChangedUpdate(old, new)
       \/ FinalizersChangedUpdate(old, new)
    /\ LabelSelectorMatches(selector, new)
    /\ namespaceMatches(nsSelector, ns)

\* Variant of combinedPredicateCreate that admits no creation
combinedPredicateCreateNever(object, selector, nsSelector, ns) == FALSE

\* combinedPredicate.Create: the three change predicates admit every creation
combinedPredicateCreate(object, selector, nsSelector, ns) ==
    /\ LabelSelectorMatches(selector, object)
    /\ namespaceMatches(nsSelector, ns)

(***************************************************************************)
(* Spec: the controller against the instance and document repositories.    *)
(* One action per storage call of Reconcile; invocations for different     *)
(* keys interleave at the storage calls, at most one invocation per key.   *)
(***************************************************************************)
\* metav1.Condition of type Ready
Ready(status, reason, message) ==
    [type |-> conditionTypeReady, status |-> status, reason |-> reason,
     message |-> message]

\* Variant of SetStatusCondition that appends without looking for the type
SetStatusConditionAppending(conditions, c) == Append(conditions, c)

\* meta.SetStatusCondition: replaces the condition of the same type, or appends
SetStatusCondition(conditions, c) ==
    IF \E i \in 1..Len(conditions) : conditions[i].type = c.type
    THEN [i \in 1..Len(conditions) |->
            IF conditions[i].type = c.type THEN c ELSE conditions[i]]
    ELSE Append(conditions, c)

\* controllerutil.ContainsFinalizer / AddFinalizer / RemoveFinalizer
\* ContainsFinalizer that never finds the finalizer
ContainsFinalizerNever(o, f) == FALSE
ContainsFinalizer(o, f) == f \in o.finalizers
AddFinalizer(o, f) == [o EXCEPT !.finalizers = @ \cup {f}]
RemoveFinalizer(o, f) == [o EXCEPT !.finalizers = @ \ {f}]

\* The local instance with its Ready condition set
WithReady(o, status, reason, message) ==
    [o EXCEPT !.conditions = SetStatusCondition(@, Ready(status, reason, message))]

\* Storage layer: a write of the instance is accepted iff the instance exists
\* and its resourceVersion is the one the invocation holds
InstanceWritable(k) == inst[k].exists /\ ~instStale[k]

\* Storage layer: r.Status().Update stores the status of o only
StoredAfterStatusUpdate(k, o) == [inst[k] EXCEPT !.conditions = o.conditions]

\* Storage layer: r.Update stores metadata and spec of o, never its status; an
\* instance whose deletion is requested and that holds no finalizer is removed
StoredAfterUpdate(k, o) ==
    LET upd == [inst[k] EXCEPT !.finalizers = o.finalizers,
                               !.resources = o.resources,
                               !.configMap = o.configMap]
    IN  IF upd.deleting /\ upd.finalizers = {} THEN NoInstance ELSE upd

\* Invocations that hold a ConfigMap read from name n and are about to write it
HoldsCM(j, n) ==
    pc[j] \in {"add_createcm", "add_updatecm", "del_updatecm"} /\ cm[j].name = n

\* A write of ConfigMap n by k changes its resourceVersion for the others
StaleAfterWrite(k, n) ==
    [j \in CKeys |-> IF j # k /\ HoldsCM(j, n) THEN TRUE ELSE cmStale[j]]

\* A storage call fails for a reason of its own (fault), at most MaxFails times
Fault(fault) ==
    /\ fault => fails < MaxFails
    /\ fails' = IF fault THEN fails + 1 ELSE fails

\* Reconcile returns result res with invocation record r; r.cause is the error
\* the returned error wraps (every fmt.Errorf of the controller wraps with %w)
\* (the record kept of a finished invocation is its state, path, result and
\* cause; it is dropped when the stored instance is no longer the one it ran
\* for)
Finish(k, r, res) ==
    /\ pc' = [pc EXCEPT ![k] = "idle"]
    /\ run' = [run EXCEPT ![k] =
                 IF instStale[k] THEN NoRun
                 ELSE [NoRun EXCEPT !.state = r.state, !.path = r.path,
                                    !.result = res,
                                    !.cause = IF res = "err" THEN r.cause ELSE "none"]]
    /\ instStale' = [instStale EXCEPT ![k] = FALSE]
    /\ instance' = [instance EXCEPT ![k] = NoInstance]
    /\ cm' = [cm EXCEPT ![k] = NoCM]

\* A user changed the stored instance k: an invocation in flight holds a stale
\* resourceVersion, the record of a finished one is dropped
Changed(k) ==
    IF pc[k] = "idle"
    THEN /\ run' = [run EXCEPT ![k] = NoRun]
         /\ UNCHANGED instStale
    ELSE /\ instStale' = [instStale EXCEPT ![k] = TRUE]
         /\ UNCHANGED run

(* ---- Notifications and the work queue ---- *)
\* r.Selector and r.NamespaceSelector of the reconciler (labels.Everything()),
\* and what the lookup of the namespace "ns" of the instances returns
ReconcilerSelector == {}
ReconcilerNamespaceSelector == {}
InstanceNamespace == [err |-> "none", labels |-> {}]

\* The object of a notification about the stored instance i; the instances
\* carry no labels
EventObject(i) ==
    [generation |-> i.generation, labels |-> {},
     finalizers |-> IF FinalizerName \in i.finalizers THEN <<FinalizerName>>
                    ELSE <<>>,
     status |-> i.conditions]

\* The event filter admits the notification of the change of a stored
\* instance from old to new (a creation, an update or a removal); a write
\* that changes nothing causes no notification
EventAdmitted(old, new) ==
    /\ old # new
    /\ IF old.exists /\ new.exists
       THEN combinedPredicateUpdate(EventObject(old), EventObject(new),
                                    ReconcilerSelector, ReconcilerNamespaceSelector,
                                    InstanceNamespace)
       ELSE combinedPredicateCreate(EventObject(IF new.exists THEN new ELSE old),
                                    ReconcilerSelector, ReconcilerNamespaceSelector,
                                    InstanceNamespace)

\* The work queue after a step of (or about) key k: the key is taken from the
\* queue when its invocation starts (taken), keys with an admitted
\* notification are added, and so is k when its invocation returns an error
QueueAfter(k, taken) ==
    /\ filtered' = filtered
    /\ queue' =
          IF ~filtered THEN queue
          ELSE ((IF taken THEN queue \ {k} ELSE queue)
                  \cup {j \in CKeys : EventAdmitted(inst[j], inst'[j])})
                  \cup (IF pc'[k] = "idle" /\ run'[k].result = "err"
                           /\ (taken \/ pc[k] # "idle")
                        THEN {k} ELSE {})

Notify(k) == QueueAfter(k, FALSE)
Dequeue(k) == QueueAfter(k, TRUE)

Init ==
    /\ MergeIdle
    /\ PureIdle
    /\ inst = [k \in CKeys |-> NoInstance]
    /\ cms \in InitialDocuments
    /\ pc = [k \in CKeys |-> "idle"]
    /\ instance = [k \in CKeys |-> NoInstance]
    /\ cm = [k \in CKeys |-> NoCM]
    /\ instStale = [k \in CKeys |-> FALSE]
    /\ cmStale = [k \in CKeys |-> FALSE]
    /\ run = [k \in CKeys |-> NoRun]
    /\ fails = 0
    /\ edits = 0
    /\ crsmTotal = 0
    /\ queue = {}
    /\ filtered = FALSE

(* ---- users of the instance repository ---- *)
\* A user creates instance k
UserCreate(k, n) ==
    /\ ~inst[k].exists
    /\ inst' = [inst EXCEPT ![k] =
                  [exists |-> TRUE, generation |-> 1, deleting |-> FALSE,
                   finalizers |-> {}, resources |-> NewResources,
                   configMap |-> n,
                   conditions |-> <<>>]]
    /\ Changed(k)
    /\ UNCHANGED <<mvars, pvars, crsmTotal, cms, pc, instance, cm, cmStale, fails, edits>>
    /\ Notify(k)

\* A user changes spec.resources of instance k: the generation is bumped
UserEdit(k, rs) ==
    /\ inst[k].exists
    /\ edits < MaxEdits
    /\ rs # inst[k].resources
    /\ inst' = [inst EXCEPT ![k].resources = rs, ![k].generation = @ + 1]
    /\ edits' = edits + 1
    /\ Changed(k)
    /\ UNCHANGED <<mvars, pvars, crsmTotal, cms, pc, instance, cm, cmStale, fails>>
    /\ Notify(k)

\* A user deletes instance k: with a finalizer the deletion timestamp is set,
\* without one the instance is removed at once
UserDelete(k) ==
    /\ inst[k].exists /\ ~inst[k].deleting
    /\ inst' = [inst EXCEPT ![k] =
                  IF inst[k].finalizers = {} THEN NoInstance
                  ELSE [inst[k] EXCEPT !.deleting = TRUE]]
    /\ Changed(k)
    /\ UNCHANGED <<mvars, pvars, crsmTotal, cms, pc, instance, cm, cmStale, fails, edits>>
    /\ Notify(k)

(* ---- Reconcile ---- *)
\* Variant of ReconcileNotFound that returns the not-found error of r.Get
\* instead of dropping it
ReconcileNotFoundAsError(k) == Finish(k, [NoRun EXCEPT !.cause = "failure"], "err")

\* r.Get of the instance reports not-found: Reconcile returns
\* client.IgnoreNotFound(err), which is nil
ReconcileNotFound(k) == Finish(k, NoRun, "ok")

\* Reconcile is invoked for key k: r.Get of the instance and state selection
ReconcileGet(k) ==
    /\ pc[k] = "idle"
    /\ filtered => k \in queue
    /\ \E fault \in BOOLEAN :
        /\ Fault(fault)
        /\ IF fault
           THEN Finish(k, [NoRun EXCEPT !.getFailed = TRUE, !.cause = "failure"], "err")
           ELSE IF ~inst[k].exists
           THEN ReconcileNotFound(k)
           ELSE /\ instStale' = [instStale EXCEPT ![k] = FALSE]
                /\ cm' = [cm EXCEPT ![k] = NoCM]
                /\ IF inst[k].deleting
                   THEN /\ pc' = [pc EXCEPT ![k] = "del_getcm"]
                        /\ run' = [run EXCEPT ![k] = [NoRun EXCEPT !.state = "Deleting"]]
                        /\ instance' = [instance EXCEPT ![k] = inst[k]]
                   ELSE IF inst[k].generation = 1
                           /\ ~ContainsFinalizer(inst[k], FinalizerName)
                   THEN /\ pc' = [pc EXCEPT ![k] = "cr_status"]
                        /\ run' = [run EXCEPT ![k] = [NoRun EXCEPT !.state = "Creating"]]
                        /\ instance' = [instance EXCEPT ![k] =
                              WithReady(inst[k], "False", reasonAdding,
                                        "Adding resources into the ConfigMap.")]
                   ELSE /\ pc' = [pc EXCEPT ![k] = "add_getcm"]
                        /\ run' = [run EXCEPT ![k] = [NoRun EXCEPT !.state = "Updating"]]
                        /\ instance' = [instance EXCEPT ![k] = inst[k]]
    /\ UNCHANGED <<mvars, pvars, crsmTotal, inst, cms, cmStale, edits>>
    /\ Dequeue(k)

(* ---- Deleting ---- *)
\* The Delete path returned an error: Reconcile sets Ready=False and goes on
\* to persist it
DeleteFailed(k, r) ==
    /\ pc' = [pc EXCEPT ![k] = "del_fail_status"]
    /\ run' = [run EXCEPT ![k] = r]
    /\ instance' = [instance EXCEPT ![k] =
          WithReady(@, "False", reasonRemoving,
                    "Failed to delete resources from the ConfigMap.")]

\* deleteCustomResourceStateMetric: r.Get of the ConfigMap, findBlock, splice
DelGetCM(k) ==
    /\ pc[k] = "del_getcm"
    /\ LET n == instance[k].configMap IN
       \E fault \in BOOLEAN :
        /\ Fault(fault)
        /\ IF fault \/ ~cms[n].exists
           THEN /\ pc' = [pc EXCEPT ![k] = "del_status"]
                /\ run' = [run EXCEPT ![k].path = "nocm", ![k].getFailed = fault]
                /\ instance' = [instance EXCEPT ![k] =
                      WithReady(@, "False", reasonRemoving,
                                "The ConfigMap with the resources doesn't exist.")]
                /\ UNCHANGED <<cm, cmStale>>
           ELSE LET r == removeBlock(cms[n].data, k) IN
                /\ cm' = [cm EXCEPT ![k] =
                            [name |-> n, read |-> cms[n].data, data |-> r.data]]
                /\ cmStale' = [cmStale EXCEPT ![k] = FALSE]
                /\ IF ~r.found
                   THEN /\ pc' = [pc EXCEPT ![k] = "del_status"]
                        /\ run' = [run EXCEPT ![k].path = "noblock"]
                        /\ instance' = [instance EXCEPT ![k] =
                              WithReady(@, "False", reasonRemoving,
                                        "Resources don't exist in the ConfigMap.")]
                   ELSE /\ pc' = [pc EXCEPT ![k] = "del_updatecm"]
                        /\ run' = [run EXCEPT ![k].path = "removed"]
                        /\ UNCHANGED instance
    /\ UNCHANGED <<mvars, pvars, crsmTotal, inst, cms, instStale, edits>>
    /\ Notify(k)

\* deleteCustomResourceStateMetric: r.Update of the ConfigMap without the block
DelUpdateCM(k) ==
    /\ pc[k] = "del_updatecm"
    /\ LET n == cm[k].name IN
       \E fault \in BOOLEAN :
        /\ Fault(fault)
        /\ IF ~fault /\ ~cmStale[k]
           THEN /\ cms' = [cms EXCEPT ![n].data = cm[k].data]
                /\ cmStale' = StaleAfterWrite(k, n)
                /\ pc' = [pc EXCEPT ![k] = "del_status"]
                /\ run' = [run EXCEPT ![k].wrote = TRUE]
                /\ instance' = [instance EXCEPT ![k] =
                      WithReady(@, "False", reasonRemoving,
                                "Finished the removal of resources from the ConfigMap.")]
           ELSE /\ DeleteFailed(k, [run[k] EXCEPT !.cause =
                                       IF fault THEN "failure" ELSE "conflict"])
                /\ UNCHANGED <<cms, cmStale>>
    /\ UNCHANGED <<mvars, pvars, crsmTotal, inst, cm, instStale, edits>>
    /\ Notify(k)

\* deleteCustomResourceStateMetric: r.Status().Update before returning nil
DelStatus(k) ==
    /\ pc[k] = "del_status"
    /\ \E fault \in BOOLEAN :
        /\ Fault(fault)
        /\ IF ~fault /\ InstanceWritable(k)
           THEN /\ inst' = [inst EXCEPT ![k] = StoredAfterStatusUpdate(k, instance[k])]
                /\ instance' = [instance EXCEPT ![k] = inst'[k]]
                /\ pc' = [pc EXCEPT ![k] = "del_fin"]
                /\ UNCHANGED run
           ELSE /\ DeleteFailed(k, [run[k] EXCEPT !.statusFailed = TRUE,
                                                       !.cause = "status"])
                /\ UNCHANGED inst
    /\ UNCHANGED <<mvars, pvars, crsmTotal, cms, cm, instStale, cmStale, edits>>
    /\ Notify(k)

\* Reconcile, Deleting: r.Status().Update after the Delete path failed, then
\* the error is returned
DelFailStatus(k) ==
    /\ pc[k] = "del_fail_status"
    /\ \E fault \in BOOLEAN :
        /\ Fault(fault)
        /\ IF ~fault /\ InstanceWritable(k)
           THEN /\ inst' = [inst EXCEPT ![k] = StoredAfterStatusUpdate(k, instance[k])]
                /\ Finish(k, run[k], "err")
           ELSE /\ Finish(k, [run[k] EXCEPT !.statusFailed = TRUE,
                                                 !.cause = "status"], "err")
                /\ UNCHANGED inst
    /\ UNCHANGED <<mvars, pvars, crsmTotal, cms, cmStale, edits>>
    /\ Notify(k)

\* Reconcile, Deleting: the finalizer is removed and the instance persisted
DelFinalizer(k) ==
    /\ pc[k] = "del_fin"
    /\ IF ~ContainsFinalizer(instance[k], FinalizerName)
       THEN /\ Finish(k, run[k], "ok")
            /\ UNCHANGED <<inst, fails>>
       ELSE \E fault \in BOOLEAN :
            /\ Fault(fault)
            /\ IF ~fault /\ InstanceWritable(k)
               THEN /\ inst' = [inst EXCEPT ![k] =
                          StoredAfterUpdate(k, RemoveFinalizer(instance[k], FinalizerName))]
                    /\ Finish(k, run[k], "ok")
               ELSE /\ pc' = [pc EXCEPT ![k] = "del_fin_fail_status"]
                    /\ run' = [run EXCEPT ![k].updateFailed = TRUE,
                                          ![k].cause = "update"]
                    /\ instance' = [instance EXCEPT ![k] =
                          WithReady(RemoveFinalizer(@, FinalizerName), "False",
                                    reasonRemoving, "Failed to delete finalizer.")]
                    /\ UNCHANGED <<inst, cm, instStale>>
    /\ UNCHANGED <<mvars, pvars, crsmTotal, cms, cmStale, edits>>
    /\ Notify(k)

\* Reconcile, Deleting: r.Status().Update after the finalizer removal failed,
\* then the error is returned
DelFinFailStatus(k) ==
    /\ pc[k] = "del_fin_fail_status"
    /\ \E fault \in BOOLEAN :
        /\ Fault(fault)
        /\ IF ~fault /\ InstanceWritable(k)
           THEN /\ inst' = [inst EXCEPT ![k] = StoredAfterStatusUpdate(k, instance[k])]
                /\ Finish(k, run[k], "err")
           ELSE /\ Finish(k, [run[k] EXCEPT !.statusFailed = TRUE,
                                                 !.cause = "status"], "err")
                /\ UNCHANGED inst
    /\ UNCHANGED <<mvars, pvars, crsmTotal, cms, cmStale, edits>>
    /\ Notify(k)

(* ---- Creating and Updating ---- *)
\* Variant of CrStatus that goes on to the Add path without writing the status
CrStatusSkipped(k) ==
    /\ pc[k] = "cr_status"
    /\ pc' = [pc EXCEPT ![k] = "add_getcm"]
    /\ UNCHANGED <<mvars, pvars, crsmTotal, inst, cms, instance, cm, instStale,
                   cmStale, run, fails, edits>>
    /\ Notify(k)

\* Reconcile, Creating: r.Status().Update of Ready=False/Adding before the Add
\* path
CrStatus(k) ==
    /\ pc[k] = "cr_status"
    /\ \E fault \in BOOLEAN :
        /\ Fault(fault)
        /\ IF ~fault /\ InstanceWritable(k)
           THEN /\ inst' = [inst EXCEPT ![k] = StoredAfterStatusUpdate(k, instance[k])]
                /\ instance' = [instance EXCEPT ![k] = inst'[k]]
                /\ pc' = [pc EXCEPT ![k] = "add_getcm"]
                /\ UNCHANGED <<run, cm, instStale>>
           ELSE /\ Finish(k, [run[k] EXCEPT !.statusFailed = TRUE,
                                                 !.cause = "status"], "err")
                /\ UNCHANGED inst
    /\ UNCHANGED <<mvars, pvars, crsmTotal, cms, cmStale, edits>>
    /\ Notify(k)

\* The message Reconcile sets when the Add path returned an error
AddFailedMessage(state) ==
    IF state = "Creating" THEN "Failed to add resources into the ConfigMap."
    ELSE "Failed to update the ConfigMap."

\* Variant of AddFailed that goes back to the fetch of the ConfigMap
AddFailedRetrying(k, r) ==
    /\ pc' = [pc EXCEPT ![k] = "add_getcm"]
    /\ run' = [run EXCEPT ![k] = r]
    /\ UNCHANGED instance

\* The Add path returned an error: Reconcile sets Ready=False and goes on to
\* persist it
AddFailed(k, r) ==
    /\ pc' = [pc EXCEPT ![k] = "add_fail_status"]
    /\ run' = [run EXCEPT ![k] = r]
    /\ instance' = [instance EXCEPT ![k] =
          WithReady(@, "False", reasonAdding, AddFailedMessage(r.state))]

\* Longest document to which a reconciliation still adds a block: MaxCmLen
\* when reconciliations run at any time, MaxDocLen in the closed loop, where
\* only queued keys are reconciled
CmLenBound == IF filtered THEN MaxDocLen ELSE MaxCmLen

\* addCustomResourceStateMetric: decodeData, r.Get of the ConfigMap, findBlock
\* and the computation of the new content
AddGetCM(k) ==
    /\ pc[k] = "add_getcm"
    /\ LET n == instance[k].configMap
           d == decodeData(instance[k].resources)
       IN
       /\ cms[n].exists => Len(cms[n].data) <= CmLenBound
       /\ IF d.err
          THEN /\ AddFailed(k, [run[k] EXCEPT !.path = "encode", !.cause = "encode"])
               /\ UNCHANGED <<cm, cmStale, fails, instStale>>
          ELSE \E fault \in BOOLEAN :
               /\ Fault(fault)
               /\ IF fault
                  THEN /\ AddFailed(k, [run[k] EXCEPT !.getFailed = TRUE,
                                                      !.dataYaml = d.yaml,
                                                      !.cause = "failure"])
                       /\ UNCHANGED <<cm, cmStale, instStale>>
                  ELSE IF ~cms[n].exists
                  THEN /\ cm' = [cm EXCEPT ![k] =
                                   [name |-> n, read |-> <<>>,
                                    data |-> newConfigMapData(k, d.yaml)]]
                       /\ cmStale' = [cmStale EXCEPT ![k] = FALSE]
                       /\ pc' = [pc EXCEPT ![k] = "add_createcm"]
                       /\ run' = [run EXCEPT ![k].path = "created",
                                             ![k].dataYaml = d.yaml]
                       /\ UNCHANGED <<instance, instStale>>
                  ELSE LET r == upsertBlock(cms[n].data, k, d.yaml) IN
                       IF r.panic
                       THEN /\ Finish(k, [run[k] EXCEPT !.path = "panic", !.cause = "panic"], "err")
                            /\ UNCHANGED cmStale
                       ELSE
                       /\ cm' = [cm EXCEPT ![k] =
                                   [name |-> n, read |-> cms[n].data, data |-> r.data]]
                       /\ cmStale' = [cmStale EXCEPT ![k] = FALSE]
                       /\ IF r.same
                          THEN /\ pc' = [pc EXCEPT ![k] = "add_status"]
                               /\ run' = [run EXCEPT ![k].path = "same",
                                                     ![k].dataYaml = d.yaml]
                               /\ instance' = [instance EXCEPT ![k] =
                                     WithReady(@, "True", reasonAdding,
                                       "The same resources already exist in the ConfigMap.")]
                               /\ UNCHANGED instStale
                          ELSE /\ pc' = [pc EXCEPT ![k] = "add_updatecm"]
                               /\ run' = [run EXCEPT ![k].path = "updated",
                                                     ![k].dataYaml = d.yaml]
                               /\ UNCHANGED <<instance, instStale>>
    /\ UNCHANGED <<mvars, pvars, crsmTotal, inst, cms, edits>>
    /\ Notify(k)

\* addCustomResourceStateMetric: r.Create of the new ConfigMap
AddCreateCM(k) ==
    /\ pc[k] = "add_createcm"
    /\ LET n == cm[k].name IN
       \E fault \in BOOLEAN :
        /\ Fault(fault)
        /\ IF ~fault /\ ~cms[n].exists
           THEN /\ cms' = [cms EXCEPT ![n] = [exists |-> TRUE, data |-> cm[k].data]]
                /\ cmStale' = StaleAfterWrite(k, n)
                /\ pc' = [pc EXCEPT ![k] = "add_status"]
                /\ run' = [run EXCEPT ![k].wrote = TRUE]
                /\ instance' = [instance EXCEPT ![k] =
                      WithReady(@, "True", reasonAdding,
                        "Finished the addition of resources into a newly created ConfigMap.")]
           ELSE /\ AddFailed(k, [run[k] EXCEPT !.cause =
                                    IF fault THEN "failure" ELSE "exists"])
                /\ UNCHANGED <<cms, cmStale>>
    /\ UNCHANGED <<mvars, pvars, crsmTotal, inst, cm, instStale, edits>>
    /\ Notify(k)

\* addCustomResourceStateMetric: r.Update of the existing ConfigMap
AddUpdateCM(k) ==
    /\ pc[k] = "add_updatecm"
    /\ LET n == cm[k].name IN
       \E fault \in BOOLEAN :
        /\ Fault(fault)
        /\ IF ~fault /\ ~cmStale[k]
           THEN /\ cms' = [cms EXCEPT ![n].data = cm[k].data]
                /\ cmStale' = StaleAfterWrite(k, n)
                /\ pc' = [pc EXCEPT ![k] = "add_status"]
                /\ run' = [run EXCEPT ![k].wrote = TRUE]
                /\ instance' = [instance EXCEPT ![k] =
                      WithReady(@, "True", reasonAdding,
                        "Finished the addition of resources into an existing ConfigMap.")]
           ELSE /\ AddFailed(k, [run[k] EXCEPT !.cause =
                                    IF fault THEN "failure" ELSE "conflict"])
                /\ UNCHANGED <<cms, cmStale>>
    /\ UNCHANGED <<mvars, pvars, crsmTotal, inst, cm, instStale, edits>>
    /\ Notify(k)

\* addCustomResourceStateMetric: r.Status().Update of Ready=True before
\* returning nil; Updating then returns success, Creating goes on to the
\* finalizer
AddStatus(k) ==
    /\ pc[k] = "add_status"
    /\ \E fault \in BOOLEAN :
        /\ Fault(fault)
        /\ IF ~fault /\ InstanceWritable(k)
           THEN /\ inst' = [inst EXCEPT ![k] = StoredAfterStatusUpdate(k, instance[k])]
                /\ IF run[k].state = "Creating"
                   THEN /\ instance' = [instance EXCEPT ![k] = inst'[k]]
                        /\ pc' = [pc EXCEPT ![k] = "cr_fin"]
                        /\ UNCHANGED <<run, cm, instStale>>
                   ELSE Finish(k, run[k], "ok")
           ELSE /\ AddFailed(k, [run[k] EXCEPT !.statusFailed = TRUE,
                                                    !.cause = "status"])
                /\ UNCHANGED <<inst, cm, instStale>>
    /\ UNCHANGED <<mvars, pvars, crsmTotal, cms, cmStale, edits>>
    /\ Notify(k)

\* Reconcile, Creating / Updating: r.Status().Update after the Add path
\* failed, then the error is returned
AddFailStatus(k) ==
    /\ pc[k] = "add_fail_status"
    /\ \E fault \in BOOLEAN :
        /\ Fault(fault)
        /\ IF ~fault /\ InstanceWritable(k)
           THEN /\ inst' = [inst EXCEPT ![k] = StoredAfterStatusUpdate(k, instance[k])]
                /\ Finish(k, run[k], "err")
           ELSE /\ Finish(k, [run[k] EXCEPT !.statusFailed = TRUE,
                                                 !.cause = "status"], "err")
                /\ UNCHANGED inst
    /\ UNCHANGED <<mvars, pvars, crsmTotal, cms, cmStale, edits>>
    /\ Notify(k)

\* Reconcile, Creating: the finalizer is added and the instance persisted
CrFinalizer(k) ==
    /\ pc[k] = "cr_fin"
    /\ IF ContainsFinalizer(instance[k], FinalizerName)
       THEN /\ Finish(k, run[k], "ok")
            /\ UNCHANGED <<inst, fails>>
       ELSE \E fault \in BOOLEAN :
            /\ Fault(fault)
            /\ IF ~fault /\ InstanceWritable(k)
               THEN /\ inst' = [inst EXCEPT ![k] =
                          StoredAfterUpdate(k, AddFinalizer(instance[k], FinalizerName))]
                    /\ Finish(k, run[k], "ok")
               ELSE /\ Finish(k, [run[k] EXCEPT !.updateFailed = TRUE,
                                                      !.cause = "update"], "err")
                    /\ UNCHANGED inst
    /\ UNCHANGED <<mvars, pvars, crsmTotal, cms, cmStale, edits>>
    /\ Notify(k)

Next ==
    \/ \E k \in CKeys, n \in CMNames : UserCreate(k, n)
    \/ \E k \in CKeys, rs \in ResourceLists : UserEdit(k, rs)
    \/ \E k \in CKeys : UserDelete(k)
    \/ \E k \in CKeys : ReconcileGet(k)
    \/ \E k \in CKeys : DelGetCM(k)
    \/ \E k \in CKeys : DelUpdateCM(k)
    \/ \E k \in CKeys : DelStatus(k)
    \/ \E k \in CKeys : DelFailStatus(k)
    \/ \E k \in CKeys : DelFinalizer(k)
    \/ \E k \in CKeys : DelFinFailStatus(k)
    \/ \E k \in CKeys : CrStatus(k)
    \/ \E k \in CKeys : AddGetCM(k)
    \/ \E k \in CKeys : AddCreateCM(k)
    \/ \E k \in CKeys : AddUpdateCM(k)
    \/ \E k \in CKeys : AddStatus(k)
    \/ \E k \in CKeys : AddFailStatus(k)
    \/ \E k \in CKeys : CrFinalizer(k)

Spec == Init /\ [][Next]_vars

(***************************************************************************)
(* Properties of the controller (checked under Spec)                       *)
(***************************************************************************)
\* The ConfigMap instance k points to
TargetOf(k) == cms[inst[k].configMap]

\* The lines of the block the Add path writes for the stored instance k
EncodedBlockLines(k) ==
    Split(TrimSuffixNL(cmData(k, decodeData(inst[k].resources).yaml)))

\* The last invocation for k ran the Add path for the instance as it is stored
\* now and returned success
Succeeded(k) ==
    /\ pc[k] = "idle"
    /\ inst[k].exists /\ ~inst[k].deleting
    /\ run[k].state \in {"Creating", "Updating"}
    /\ run[k].result = "ok"

\* C2: no lost update: in every state where the reconciliations of two
\* different instances targeting the same document have both returned
\* success, the document holds the block of each with the content that
\* instance encoded.
C2_NoLostUpdate ==
    \A k1 \in CKeys, k2 \in CKeys :
        (k1 # k2 /\ Succeeded(k1) /\ Succeeded(k2)
            /\ inst[k1].configMap = inst[k2].configMap)
        => \A k \in {k1, k2} :
              /\ TargetOf(k).exists
              /\ HasBlock(TargetOf(k).data, k)
              /\ BlockLines(TargetOf(k).data, k) = EncodedBlockLines(k)

\* C3: deletion completes cleanly, block removal before finalizer removal:
\* once a Deleting reconciliation has returned success and the instance is
\* gone, the document it pointed to holds no block for it.
C3_DeletionRemovesBlock ==
    \A k \in CKeys, n \in CMNames :
        (pc[k] = "idle" /\ run[k].state = "Deleting" /\ run[k].result = "ok"
            /\ ~inst[k].exists /\ cms[n].exists)
        => ~HasBlock(cms[n].data, k)

\* C4: in every Deleting reconciliation, whatever the outcome of the
\* document fetch, the finalizer is removed from the stored instance only if
\* at that moment the document does not exist or holds no block for it.
C4_FinalizerGuardsBlock ==
    [][\A k \in CKeys :
          (pc[k] = "del_fin" /\ pc'[k] = "idle"
              /\ ContainsFinalizer(inst[k], FinalizerName)
              /\ ~ContainsFinalizer(inst'[k], FinalizerName))
          => \/ ~TargetOf(k).exists
             \/ ~HasBlock(TargetOf(k).data, k)]_vars

\* C5: whenever Reconcile has returned success for a live instance, the
\* stored instance carries the finalizer, whatever its generation was at its
\* first reconciliation.
C5_SuccessRegistersFinalizer ==
    \A k \in CKeys : Succeeded(k) => ContainsFinalizer(inst[k], FinalizerName)

\* The invocation for k takes a step
Steps(k) == pc'[k] # pc[k]

\* C8: no churn: when the Add path reads a document that holds k's block with
\* content identical to the new encoding it goes straight to the status update
\* and the document is unchanged; and every document update the Add path
\* issues changes the stored content.
C8_NoChurn ==
    [][\A k \in CKeys :
          LET n == instance[k].configMap IN
          /\ (pc[k] = "add_getcm" /\ pc'[k] \notin {"add_getcm", "add_fail_status"}
                 /\ cms[n].exists /\ HasBlock(cms[n].data, k)
                 /\ BlockLines(cms[n].data, k)
                      = Split(TrimSuffixNL(cmData(k, decodeData(instance[k].resources).yaml))))
             => /\ pc'[k] = "add_status"
                /\ cm'[k].data = cms[n].data
                /\ cms' = cms
          /\ (pc[k] = "add_updatecm" /\ pc'[k] = "add_status")
             => cms'[n].data # cms[n].data]_vars

\* C8 witness: the Add path found the identical block and is about to update
\* the status without having written the document
C8_Witness ==
    \E k \in CKeys :
        /\ pc[k] = "add_status" /\ run[k].path = "same" /\ ~run[k].wrote
        /\ cms[cm[k].name].data = cm[k].read

\* C9 as stated: deleting an instance whose block is absent from an existing
\* document returns no error, issues no document write and leaves the
\* document byte-identical.
C9_AbsentBlockNeverFails ==
    [][\A k \in CKeys :
          LET n == instance[k].configMap IN
          /\ (pc[k] = "del_getcm" /\ Steps(k)
                 /\ cms[n].exists /\ ~HasBlock(cms[n].data, k))
             => (pc'[k] = "del_status" /\ cms' = cms)
          /\ (pc[k] # "idle" /\ Steps(k)
                 /\ run[k].state = "Deleting" /\ run[k].path = "noblock")
             => /\ cms' = cms
                /\ pc'[k] = "idle" => run'[k].result # "err"]_vars

\* C9 amended: deleting an instance whose block is absent from an existing
\* document issues no document write and leaves the document byte-identical;
\* it returns an error only when a write of the instance (the status update
\* or the removal of the finalizer) fails.
C9_AbsentBlockDelete ==
    [][\A k \in CKeys :
          LET n == instance[k].configMap IN
          /\ (pc[k] = "del_getcm" /\ Steps(k)
                 /\ cms[n].exists /\ ~HasBlock(cms[n].data, k))
             => (pc'[k] = "del_status" /\ cms' = cms)
          /\ (pc[k] # "idle" /\ Steps(k)
                 /\ run[k].state = "Deleting" /\ run[k].path = "noblock")
             => /\ cms' = cms
                /\ (pc'[k] = "idle" /\ run'[k].result = "err")
                      => (run[k].statusFailed \/ run[k].updateFailed)]_vars

\* C9 witness: a Deleting reconciliation that found no block in the existing
\* document has returned success
C9_Witness ==
    \E k \in CKeys, n \in CMNames :
        /\ pc[k] = "idle" /\ run[k].state = "Deleting" /\ run[k].path = "noblock"
        /\ run[k].result = "ok"
        /\ cms[n].exists /\ ~HasBlock(cms[n].data, k)

\* The positions of the conditions of type Ready in the stored status of k
ReadyConditions(k) ==
    {i \in 1..Len(inst[k].conditions) : inst[k].conditions[i].type = conditionTypeReady}

\* C13: whenever Reconcile has returned success for a live instance (Creating
\* or Updating), its persisted status holds exactly one condition of type
\* Ready and that condition's status is True.
C13_SuccessIsReady ==
    \A k \in CKeys :
        Succeeded(k)
        => /\ Cardinality(ReadyConditions(k)) = 1
           /\ \A i \in ReadyConditions(k) : inst[k].conditions[i].status = "True"

\* C13 witness: a Creating reconciliation that appended its block to an
\* existing document has returned success
C13_Witness ==
    \E k \in CKeys :
        Succeeded(k) /\ run[k].state = "Creating" /\ run[k].path = "updated"

\* The Ready condition of the object o is set and its status is False
NotReady(o) ==
    /\ \E i \in 1..Len(o.conditions) : o.conditions[i].type = conditionTypeReady
    /\ \A i \in 1..Len(o.conditions) :
          o.conditions[i].type = conditionTypeReady => o.conditions[i].status = "False"

\* C14: every step on which Reconcile returns an error for an instance it
\* fetched (Deleting, Creating or Updating, failures of the finalizer and of
\* status writes included) returns with the Ready condition of the instance
\* set to False and after an attempt to persist it; no error is returned
\* while the Ready condition is left True.
C14_ErrorSetsNotReady ==
    [][\A k \in CKeys :
          (pc[k] # "idle" /\ pc'[k] = "idle" /\ run'[k].result = "err")
          => /\ NotReady(instance[k])
             /\ pc[k] \in {"cr_status", "add_fail_status", "del_fail_status",
                           "del_fin_fail_status"}]_vars

\* The conditional write of the document by k fails because the stored
\* document changed since k read it
ConflictStep(k) ==
    /\ pc[k] \in {"add_updatecm", "del_updatecm"}
    /\ cmStale[k] /\ Steps(k) /\ fails' = fails

\* k persists Ready=False after its document write failed on a conflict, and
\* returns
ConflictReturn(k) ==
    /\ pc[k] \in {"add_fail_status", "del_fail_status"}
    /\ run[k].cause = "conflict" /\ Steps(k)

\* C15 as stated: when the conditional document write of the Add or Delete
\* path fails on a conflict, the reconciliation returns an error that still
\* identifies the conflict, does not modify the stored document, leaves the
\* finalizer set as it was and does not retry the splice in the invocation.
C15_ConflictReported ==
    [][\A k \in CKeys :
          /\ ConflictStep(k)
             => /\ pc'[k] \in {"add_fail_status", "del_fail_status"}
                /\ run'[k].cause = "conflict"
                /\ cms' = cms
                /\ inst'[k].finalizers = inst[k].finalizers
          /\ ConflictReturn(k)
             => /\ pc'[k] = "idle"
                /\ run'[k].result # "ok"
                /\ run'[k].result = "err" => run'[k].cause = "conflict"
                /\ cms' = cms
                /\ inst'[k].finalizers = inst[k].finalizers]_vars

\* C15 amended: when the conditional document write of the Add or Delete path
\* fails on a conflict, the reconciliation returns an error, does not modify
\* the stored document, leaves the finalizer set as it was and does not retry
\* the splice in the invocation; the returned error wraps the conflict unless
\* the status write that follows fails too, in which case it wraps the error
\* of that status write and the status is not persisted.
C15_ConflictReturnsError ==
    [][\A k \in CKeys :
          /\ ConflictStep(k)
             => /\ pc'[k] \in {"add_fail_status", "del_fail_status"}
                /\ run'[k].cause = "conflict"
                /\ cms' = cms
                /\ inst'[k].finalizers = inst[k].finalizers
          /\ ConflictReturn(k)
             => /\ pc'[k] = "idle"
                /\ run'[k].result # "ok"
                /\ run'[k].result = "err"
                      => \/ run'[k].cause = "conflict"
                         \/ run'[k].cause = "status" /\ inst' = inst
                /\ cms' = cms
                /\ inst'[k].finalizers = inst[k].finalizers]_vars

\* C15 witness: a reconciliation whose document write failed on a conflict has
\* returned the error, the document being the one the other instance wrote
C15_Witness ==
    \E k \in CKeys :
        /\ pc[k] = "idle" /\ run[k].result = "err" /\ run[k].cause = "conflict"
        /\ \E j \in CKeys \ {k}, n \in CMNames : cms[n].exists /\ HasBlock(cms[n].data, j)

\* C17: state selection is a total function of the fields of the stored
\* instance, evaluated anew by every invocation that finds the instance:
\* Deleting iff deletion is requested, Creating iff not deleting and
\* generation = 1 and the finalizer is absent, Updating otherwise; and no step
\* of a Deleting reconciliation appends or replaces a block in any document
\* or adds a finalizer to the local or the stored instance.
C17_StateSelection ==
    [][\A k \in CKeys :
          /\ (pc[k] = "idle" /\ pc'[k] # "idle")
             => LET creating == /\ ~inst[k].deleting
                                /\ inst[k].generation = 1
                                /\ FinalizerName \notin inst[k].finalizers
                IN  /\ run'[k].state \in {"Deleting", "Creating", "Updating"}
                    /\ run'[k].state = "Deleting" <=> inst[k].deleting
                    /\ run'[k].state = "Creating" <=> creating
                    /\ run'[k].state = "Updating" <=> (~inst[k].deleting /\ ~creating)
          /\ (pc[k] # "idle" /\ run[k].state = "Deleting" /\ Steps(k))
             => /\ \A n \in CMNames : \A j \in Keys :
                      (cms'[n].exists /\ HasBlock(cms'[n].data, j))
                         => /\ cms[n].exists /\ HasBlock(cms[n].data, j)
                            /\ BlockLines(cms'[n].data, j) = BlockLines(cms[n].data, j)
                /\ inst'[k].finalizers \subseteq inst[k].finalizers
                /\ instance'[k].finalizers \subseteq instance[k].finalizers]_vars

\* C17 witness: a Deleting reconciliation, selected for an instance of
\* generation 1, has written the document without the block while another
\* instance of generation 1 that holds the finalizer is being reconciled in
\* the Updating state
C17_Witness ==
    \E k, j \in CKeys :
        /\ pc[k] = "del_status" /\ run[k].state = "Deleting" /\ run[k].wrote
        /\ inst[k].generation = 1
        /\ pc[j] # "idle" /\ run[j].state = "Updating"
        /\ inst[j].generation = 1 /\ FinalizerName \in inst[j].finalizers

\* C18: a Creating reconciliation starts with the write of the status
\* Ready=False/Adding, before the document is read, created or updated: the
\* reconciliation goes on to the document only with that status persisted, and
\* when the write fails it returns an error having written no document and
\* leaving the finalizers and the stored instance as they were.
C18_CreatingStatusFirst ==
    [][\A k \in CKeys :
          /\ (pc[k] = "idle" /\ pc'[k] # "idle" /\ run'[k].state = "Creating")
             => (pc'[k] = "cr_status" /\ cm'[k] = NoCM /\ cms' = cms)
          /\ (pc[k] = "cr_status" /\ Steps(k))
             => /\ cms' = cms
                /\ cm'[k] = NoCM
                /\ inst'[k].finalizers = inst[k].finalizers
                /\ \/ /\ pc'[k] = "add_getcm"
                      /\ inst'[k].conditions =
                            <<Ready("False", reasonAdding,
                                    "Adding resources into the ConfigMap.")>>
                   \/ /\ pc'[k] = "idle"
                      /\ inst' = inst
                      /\ run'[k].result \in {"err", "none"}
                      /\ ~instStale[k] => /\ run'[k].result = "err"
                                          /\ run'[k].cause = "status"]_vars

\* C18 witness: the first status write of a Creating reconciliation failed
\* and the reconciliation returned the error: no document exists and the
\* stored instance holds neither a condition nor a finalizer
C18_Witness ==
    \E k \in CKeys :
        /\ pc[k] = "idle" /\ run[k].state = "Creating" /\ run[k].result = "err"
        /\ run[k].cause = "status" /\ run[k].path = "none"
        /\ inst[k].exists /\ inst[k].conditions = <<>> /\ inst[k].finalizers = {}
        /\ \A n \in CMNames : ~cms[n].exists

\* The Ready condition Reconcile sets when the Delete path returned an error
RemovingFailed ==
    Ready("False", reasonRemoving, "Failed to delete resources from the ConfigMap.")

EncodingFails(k) ==
    /\ pc[k] = "add_getcm"
    /\ \E i \in 1..Len(instance[k].resources) : instance[k].resources[i] = Unencodable
    /\ Steps(k)

\* Reconcile is about to persist Ready=False after the encoding failed
EncodingFailedReturn(k) ==
    /\ pc[k] = "add_fail_status" /\ run[k].path = "encode" /\ Steps(k)

\* C20: when encoding the resources fails, the Add path returns before the
\* document is fetched and with no create or update (the stored document is
\* unchanged), Reconcile sets Ready=False, and the error it returns is the
\* encoding error.
C20_EncodingFailureReported ==
    [][\A k \in CKeys :
          /\ EncodingFails(k)
             => /\ pc'[k] = "add_fail_status"
                /\ cm'[k] = NoCM /\ fails' = fails
                /\ cms' = cms
                /\ NotReady(instance'[k])
          /\ EncodingFailedReturn(k)
             => /\ pc'[k] = "idle"
                /\ cms' = cms
                /\ run'[k].result # "ok"
                /\ run'[k].result = "err" => run'[k].cause = "encode"
                /\ inst' # inst => NotReady(inst'[k])]_vars

\* C20 amended: when encoding the resources fails, the Add path returns
\* before the document is fetched and with no create or update, Reconcile sets
\* Ready=False and returns an error: the encoding error when the write of
\* that status succeeds, the error of the status write (with the status not
\* persisted) when it fails.
C20_EncodingFailureReturnsError ==
    [][\A k \in CKeys :
          /\ EncodingFails(k)
             => /\ pc'[k] = "add_fail_status"
                /\ cm'[k] = NoCM /\ fails' = fails
                /\ cms' = cms
                /\ NotReady(instance'[k])
          /\ EncodingFailedReturn(k)
             => /\ pc'[k] = "idle"
                /\ cms' = cms
                /\ run'[k].result # "ok"
                /\ run'[k].result = "err"
                      => \/ run'[k].cause = "encode" /\ NotReady(inst'[k])
                         \/ run'[k].cause = "status" /\ inst' = inst
                /\ inst' # inst => NotReady(inst'[k])]_vars

\* C20 witness: a reconciliation of an instance whose resources cannot be
\* encoded has returned the encoding error with Ready=False persisted, and
\* the document it would have written holds no block of the instance
C20_Witness ==
    \E k \in CKeys : \E n \in CMNames :
        /\ pc[k] = "idle" /\ run[k].path = "encode"
        /\ run[k].result = "err" /\ run[k].cause = "encode"
        /\ inst[k].exists /\ inst[k].resources = <<Unencodable>>
        /\ NotReady(inst[k])
        /\ cms[n].exists /\ ~HasBlock(cms[n].data, k)

\* C16: the gauge is driven by the state machine: one increment per
\* successful Creating transition (which registers the finalizer), one
\* decrement per successful Deleting transition (which removes it), so the
\* gauge equals the number of instances created and not yet deleted.
C16_GaugeCountsInstances ==
    crsmTotal = Cardinality({k \in CKeys : ContainsFinalizer(inst[k], FinalizerName)})

\* C26: no orphan blocks: in every reachable state, if a document contains a
\* block for key k then instance k still exists in the instance repository
\* (live, or deletion-requested and held by the finalizer).
C26_NoOrphanBlocks ==
    \A n \in CMNames, k \in CKeys :
        (cms[n].exists /\ HasBlock(cms[n].data, k)) => inst[k].exists

\* C32: Reconcile invoked for a key whose instance no longer exists returns
\* success and writes nothing: no document is created or updated, no instance
\* and no status is updated, and the invocation is over.
C32_AbsentKeyNoWrite ==
    [][\A k \in CKeys :
          (ReconcileGet(k) /\ ~inst[k].exists /\ fails' = fails)
             => /\ pc'[k] = "idle"
                /\ run'[k].result = "ok"
                /\ inst' = inst
                /\ cms' = cms]_vars

\* C32 witness: an invocation for a key whose instance is gone, while a
\* document still holds its block, has returned
C32_Witness ==
    \E k \in CKeys :
        /\ pc[k] = "idle"
        /\ ~inst[k].exists
        /\ run[k].state = "none" /\ run[k].result = "ok"
        /\ \E n \in AllCMNames : cms[n].exists /\ HasBlock(cms[n].data, k)

(***************************************************************************)
(* LoopSpec: the closed loop of newly created instances, the controller's  *)
(* own writes and the notifications the event filter admits; no user       *)
(* changes anything after the creation.  The controller's workers take     *)
(* every queued key and run every invocation to its return (weak fairness).*)
(***************************************************************************)
LoopInit ==
    /\ MergeIdle
    /\ PureIdle
    /\ inst \in [CKeys -> {NoInstance} \cup
                     {[exists |-> TRUE, generation |-> 1, deleting |-> FALSE,
                       finalizers |-> {}, resources |-> NewResources,
                       configMap |-> n, conditions |-> <<>>] : n \in CMNames}]
    /\ cms \in InitialDocuments
    /\ pc = [k \in CKeys |-> "idle"]
    /\ instance = [k \in CKeys |-> NoInstance]
    /\ cm = [k \in CKeys |-> NoCM]
    /\ instStale = [k \in CKeys |-> FALSE]
    /\ cmStale = [k \in CKeys |-> FALSE]
    /\ run = [k \in CKeys |-> NoRun]
    /\ fails = 0
    /\ edits = 0
    /\ crsmTotal = 0
    /\ filtered = TRUE
    /\ queue = {k \in CKeys : EventAdmitted(NoInstance, inst[k])}

LoopNext ==
    \/ \E k \in CKeys : ReconcileGet(k)
    \/ \E k \in CKeys : CrStatus(k)
    \/ \E k \in CKeys : AddGetCM(k)
    \/ \E k \in CKeys : AddCreateCM(k)
    \/ \E k \in CKeys : AddUpdateCM(k)
    \/ \E k \in CKeys : AddStatus(k)
    \/ \E k \in CKeys : AddFailStatus(k)
    \/ \E k \in CKeys : CrFinalizer(k)

\* An invocation is at the Add path, which is then enabled
AtAddGetCM ==
    \E k \in CKeys :
        /\ pc[k] = "add_getcm"
        /\ cms[instance[k].configMap].exists =>
              Len(cms[instance[k].configMap].data) <= CmLenBound

\* The steps of the loop other than the first step of the Add path
LoopOtherSteps ==
    \E k \in CKeys :
        \/ ReconcileGet(k) \/ CrStatus(k) \/ AddCreateCM(k) \/ AddUpdateCM(k)
        \/ AddStatus(k) \/ AddFailStatus(k) \/ CrFinalizer(k)

\* Weak fairness of the loop: a worker takes a queued key and an invocation
\* that can take its next step takes it.  For the first step of the Add path
\* weak fairness is written with its enabling condition, AtAddGetCM.
LoopFairness ==
    /\ WF_vars(LoopOtherSteps)
    /\ \/ []<>(~AtAddGetCM)
       \/ []<><<\E k \in CKeys : AddGetCM(k)>>_vars

LoopSpec == LoopInit /\ [][LoopNext]_vars /\ LoopFairness

\* The loop has come to rest for instance k: no invocation runs, no admitted
\* notification is pending, the persisted status is Ready=True, the finalizer
\* is registered and the document holds the block of the instance
Quiescent(k) ==
    /\ pc[k] = "idle" /\ k \notin queue
    /\ Len(inst[k].conditions) = 1
    /\ inst[k].conditions[1].type = conditionTypeReady
    /\ inst[k].conditions[1].status = "True"
    /\ FinalizerName \in inst[k].finalizers
    /\ cms[inst[k].configMap].exists
    /\ HasBlock(cms[inst[k].configMap].data, k)

\* C25: quiescence: from newly created instances (generation 1, no
\* finalizer) with matching selectors and no further external change, the
\* loop of reconciliations, the controller's writes and the notifications
\* they cause terminates: eventually, and from then on, every instance is
\* at rest with Ready=True, the finalizer and its block in the document.
C25_Quiescence == <>[](\A k \in CKeys : inst[k].exists => Quiescent(k))

\* C25 witness: both instances are at rest, each after a Creating
\* reconciliation and the Updating reconciliation that the registration of
\* the finalizer caused, which found the identical block
C25_Witness ==
    /\ filtered /\ queue = {}
    /\ \A k \in CKeys :
          /\ inst[k].exists /\ Quiescent(k)
          /\ run[k].state = "Updating" /\ run[k].path = "same"
          /\ run[k].result = "ok"

(***************************************************************************)
(* TargetSpec: the controller and a user who changes spec.configMap.name   *)
(* of an instance                                                          *)
(***************************************************************************)
\* A user changes spec.configMap.name of instance k to n: the generation is
\* bumped
UserRetarget(k, n) ==
    /\ inst[k].exists
    /\ edits < MaxEdits
    /\ n # inst[k].configMap
    /\ inst' = [inst EXCEPT ![k].configMap = n, ![k].generation = @ + 1]
    /\ edits' = edits + 1
    /\ Changed(k)
    /\ UNCHANGED <<mvars, pvars, crsmTotal, cms, pc, instance, cm, cmStale, fails>>
    /\ Notify(k)

TargetNext ==
    \/ \E k \in CKeys, n \in CMNames : UserCreate(k, n)
    \/ \E k \in CKeys, n \in AllCMNames : UserRetarget(k, n)
    \/ \E k \in CKeys : UserDelete(k)
    \/ \E k \in CKeys : ReconcileGet(k)
    \/ \E k \in CKeys : DelGetCM(k)
    \/ \E k \in CKeys : DelUpdateCM(k)
    \/ \E k \in CKeys : DelStatus(k)
    \/ \E k \in CKeys : DelFailStatus(k)
    \/ \E k \in CKeys : DelFinalizer(k)
    \/ \E k \in CKeys : DelFinFailStatus(k)
    \/ \E k \in CKeys : CrStatus(k)
    \/ \E k \in CKeys : AddGetCM(k)
    \/ \E k \in CKeys : AddCreateCM(k)
    \/ \E k \in CKeys : AddUpdateCM(k)
    \/ \E k \in CKeys : AddStatus(k)
    \/ \E k \in CKeys : AddFailStatus(k)
    \/ \E k \in CKeys : CrFinalizer(k)

TargetSpec == Init /\ [][TargetNext]_vars

\* Some ConfigMap other than the names in keep holds a block of k
BlockElsewhere(k, keep) ==
    \E n \in AllCMNames \ keep : cms[n].exists /\ HasBlock(cms[n].data, k)

\* C29: single target: after a successful Updating reconciliation that
\* follows a change of the instance's target, no document other than the
\* current target holds a block of the instance; after a successful Deleting
\* reconciliation no document holds one.
C29_SingleTarget ==
    \A k \in CKeys :
        /\ (Succeeded(k) /\ run[k].state = "Updating")
              => ~BlockElsewhere(k, {inst[k].configMap})
        /\ (pc[k] = "idle" /\ run[k].state = "Deleting" /\ run[k].result = "ok"
              /\ ~inst[k].exists)
              => ~BlockElsewhere(k, {})

(***************************************************************************)
(* PureSpec: findBlock and joinLines called on every line sequence of up   *)
(* to MaxLines lines                                                       *)
(***************************************************************************)
PureInit ==
    /\ input = <<>>
    /\ call = NoCall
    /\ MergeIdle
    /\ ControllerIdle

\* The caller puts one more line into the line sequence
AppendLine(l) ==
    /\ Len(input) < MaxLines
    /\ input' = Append(input, l)
    /\ call' = NoCall
    /\ UNCHANGED <<mvars, cvars>>

\* r.findBlock(name, lines)
CallFindBlock(name) ==
    /\ call' = [fn |-> "findBlock", name |-> name, result |-> findBlock(name, input)]
    /\ UNCHANGED <<input, mvars, cvars>>

\* r.joinLines(lines, start, end)
CallJoinLines(start, end) ==
    /\ call' = [fn |-> "joinLines", start |-> start, end |-> end,
                panic |-> joinLinesPanics(input, start, end),
                result |-> IF joinLinesPanics(input, start, end) THEN <<>>
                           ELSE joinLines(input, start, end)]
    /\ UNCHANGED <<input, mvars, cvars>>

PureNext ==
    \/ \E l \in InputLines : AppendLine(l)
    \/ \E name \in Keys : CallFindBlock(name)
    \/ \E start \in -1..MaxLines, end \in -1..MaxLines : CallJoinLines(start, end)

PureSpec == PureInit /\ [][PureNext]_vars

(***************************************************************************)
(* Properties of findBlock and joinLines (checked under PureSpec)          *)
(***************************************************************************)
\* Positions (from 1) of the begin and of the end marker lines of name in input
Begins(name) == {i \in 1..Len(input) : input[i] = <<beginMarker(name)>>}
Ends(name) == {i \in 1..Len(input) : input[i] = <<endMarker(name)>>}

\* name has a begin marker line with an end marker line after it
HasPair(name) == \E b \in Begins(name), e \in Ends(name) : b < e

\* C11 as stated: with exactly one begin/end marker pair of the key (possibly
\* among blocks of other keys) findBlock returns (true, b, e), b and e the
\* indices of the key's own marker lines, b <= e; with no such pair (no
\* markers, or a begin marker with no end after it) it returns (false, -1, -1).
C11_FindBlockResult ==
    call.fn = "findBlock" =>
        LET bs == Begins(call.name)
            es == Ends(call.name)
        IN  /\ (Cardinality(bs) = 1 /\ Cardinality(es) = 1 /\ HasPair(call.name))
                => \E b \in bs, e \in es :
                      /\ b <= e
                      /\ call.result = [found |-> TRUE, beginIndex |-> b - 1,
                                        endIndex |-> e - 1]
            /\ ~HasPair(call.name)
                => call.result = [found |-> FALSE, beginIndex |-> -1, endIndex |-> -1]

\* C11 amended: with exactly one begin/end marker pair of the key findBlock
\* returns (true, b, e), b and e the indices of the key's own marker lines,
\* b <= e; with no begin marker at all it returns (false, -1, -1); with begin
\* markers but no end marker after any of them it returns found = false, the
\* index of the last begin marker and end index -1.
C11_FindBlockLocates ==
    call.fn = "findBlock" =>
        LET bs == Begins(call.name)
            es == Ends(call.name)
        IN  /\ (Cardinality(bs) = 1 /\ Cardinality(es) = 1 /\ HasPair(call.name))
                => \E b \in bs, e \in es :
                      /\ b <= e
                      /\ call.result = [found |-> TRUE, beginIndex |-> b - 1,
                                        endIndex |-> e - 1]
            /\ bs = {}
                => call.result = [found |-> FALSE, beginIndex |-> -1, endIndex |-> -1]
            /\ (bs # {} /\ ~HasPair(call.name))
                => /\ ~call.result.found
                   /\ call.result.endIndex = -1
                   /\ call.result.beginIndex + 1 \in bs
                   /\ \A b \in bs : b <= call.result.beginIndex + 1

\* C11 witness: findBlock has located the one block of a key that stands after
\* a block of another key
C11_Witness ==
    /\ call.fn = "findBlock" /\ call.result.found
    /\ Cardinality(Begins(call.name)) = 1 /\ Cardinality(Ends(call.name)) = 1
    /\ \E k \in CKeys : k # call.name /\ HasPair(k)
    /\ call.result.beginIndex > 0

\* C12: joinLines on every line sequence (empty lines included) and every
\* start/end it accepts: the result is lines[start..end] joined by newlines,
\* without trailing newline if the effective end is the last index, ending
\* with exactly one newline otherwise.
C12_JoinLinesReference ==
    (call.fn = "joinLines" /\ ~call.panic) =>
        LET lastIndex == Len(input) - 1
            s == IF call.start < 0 THEN 0 ELSE call.start
            e == IF call.end = -1 \/ call.end > lastIndex THEN lastIndex ELSE call.end
            joined == Join(Slice(input, s, e + 1))
            r == call.result
        IN  /\ TrimRightNL(r) = TrimRightNL(joined)
            /\ e = lastIndex => ~HasSuffixNL(r)
            /\ e # lastIndex => /\ HasSuffixNL(r)
                                /\ ~HasSuffixNL(SubSeq(r, 1, Len(r) - 1))

\* C23: for every line sequence, repeated begin or end markers of the key
\* included, whenever findBlock returns found = true the begin index is
\* strictly smaller than the end index, lines[begin] is the key's begin marker
\* and lines[end] its end marker, so that lines[begin .. end] is a valid
\* non-empty range.
C23_FoundRangeValid ==
    (call.fn = "findBlock" /\ call.result.found) =>
        LET b == call.result.beginIndex
            e == call.result.endIndex
        IN  /\ b < e
            /\ b + 1 \in Begins(call.name)
            /\ e + 1 \in Ends(call.name)
            /\ ~SlicePanics(input, b, e + 1)

(***************************************************************************)
(* AdmissionSpec: the event filter applied to the notifications of one     *)
(* object, the controller's selectors being fixed                          *)
(***************************************************************************)
AdmissionInit ==
    /\ input = <<>>
    /\ call = NoCall
    /\ MergeIdle
    /\ ControllerIdle

\* The object is created: a create notification
CreateEvent(object, selector, nsSelector, ns) ==
    /\ call = NoCall
    /\ object.generation = 1
    /\ call' = [fn |-> "CreateFunc", old |-> object, new |-> object,
                selector |-> selector, nsSelector |-> nsSelector, ns |-> ns,
                admit |-> combinedPredicateCreate(object, selector, nsSelector, ns)]
    /\ UNCHANGED <<input, mvars, cvars>>

\* The object is updated (or resynchronised): an update notification
UpdateEvent(new, ns) ==
    /\ call # NoCall
    /\ new.generation >= call.new.generation
    /\ call' = [fn |-> "UpdateFunc", old |-> call.new, new |-> new,
                selector |-> call.selector, nsSelector |-> call.nsSelector,
                ns |-> ns,
                admit |-> combinedPredicateUpdate(call.new, new, call.selector,
                                                  call.nsSelector, ns)]
    /\ UNCHANGED <<input, mvars, cvars>>

AdmissionNext ==
    \/ \E object \in EventObjects, selector \in Selectors,
          nsSelector \in NamespaceSelectors, ns \in NamespaceLookups :
            CreateEvent(object, selector, nsSelector, ns)
    \/ \E new \in EventObjects, ns \in NamespaceLookups : UpdateEvent(new, ns)

AdmissionSpec == AdmissionInit /\ [][AdmissionNext]_vars

(***************************************************************************)
(* Properties of the event filter (checked under AdmissionSpec)            *)
(***************************************************************************)
\* The finalizers of an object as a set
FinalizerSet(object) == {object.finalizers[i] : i \in 1..Len(object.finalizers)}

\* The selectors admit the new object of the notification: its labels match
\* the label selector, its namespace exists and matches the namespace selector
SelectorsAdmit ==
    /\ call.selector \subseteq call.new.labels
    /\ call.ns.err = "none" /\ call.nsSelector \subseteq call.ns.labels

\* C24: an update notification is admitted iff (the generation changed or
\* the label set changed or the finalizer set changed) and the label selector
\* matches the new object's labels and the namespace exists with labels
\* matching the namespace selector; a failed or not-found lookup yields
\* non-admission; an update that changes only the status is not admitted.
C24_AdmittedIffSetsChanged ==
    call.fn = "UpdateFunc" =>
        /\ call.admit <=>
              /\ \/ call.new.generation # call.old.generation
                 \/ call.new.labels # call.old.labels
                 \/ FinalizerSet(call.new) # FinalizerSet(call.old)
              /\ SelectorsAdmit
        /\ call.ns.err # "none" => ~call.admit

\* C24 amended: as C24, the finalizers being compared as the list the object
\* carries: an update that only reorders the finalizers is admitted although
\* the set of finalizers is the same.
C24_AdmittedIffChanged ==
    call.fn = "UpdateFunc" =>
        /\ call.admit <=>
              /\ \/ call.new.generation # call.old.generation
                 \/ call.new.labels # call.old.labels
                 \/ call.new.finalizers # call.old.finalizers
              /\ SelectorsAdmit
        /\ call.ns.err # "none" => ~call.admit
        /\ (call.new.generation = call.old.generation
               /\ call.new.labels = call.old.labels
               /\ call.new.finalizers = call.old.finalizers) => ~call.admit

\* C24 witness: an update that changes only the status of an object that
\* holds the finalizer and that both (non-empty) selectors admit was not
\* admitted
C24_Witness ==
    /\ call.fn = "UpdateFunc" /\ ~call.admit
    /\ call.new.status # call.old.status
    /\ call.new.finalizers = <<FinalizerName>>
    /\ call.selector = {"app=x"} /\ call.nsSelector = {"env=prod"}
    /\ SelectorsAdmit

====
